---- MODULE Spec2Model ----
(***************************************************************************)
(* Model of the gated-token program                                        *)
(* (contracts/gated-token/programs/gated-token/src/lib.rs).                *)
(*                                                                         *)
(* One action per instruction of the program.  An instruction runs in two  *)
(* phases: the account validation generated from its #[derive(Accounts)]   *)
(* struct (all non-init accounts are loaded in field order, then the init  *)
(* accounts are created, then the remaining constraints are evaluated in   *)
(* field order), and after that the handler body.  An instruction that     *)
(* returns Err aborts its transaction: none of its writes, and none of the *)
(* writes of the token program it called, are kept.                        *)
(*                                                                         *)
(* The SPL token program is the Ledger Service of the specification.  Its  *)
(* balances are not state of this program: the model records the calls an  *)
(* instruction makes to it (one token account per (mint, owner)) and takes *)
(* whether a call succeeds as an input.                                    *)
(***************************************************************************)
EXTENDS Integers, Sequences, FiniteSets, TLC

\* ------------------------------------------------------------------ bounds
\* total_supply and amounts are u64 in the program; the model keeps the
\* checked arithmetic and scales u64::MAX down to U64_MAX.
U64_MAX == 2
\* Clock::get()?.unix_timestamp ranges over 0..MaxTime.
MaxTime == 1

Keys == {"alice", "bob"}
Mints == {"mintA"}
NoKey == "none"
Amounts == {0, 1, U64_MAX}

\* (symbol, name, decimals) inputs of initialize_token: both ends of every
\* accepted range, and one value beyond each end.
Name50 == "Alpha Coin Alpha Coin Alpha Coin Alpha Coin Alpha."
Name51 == "Alpha Coin Alpha Coin Alpha Coin Alpha Coin Alpha._"
Symbols == {"AB", "ABC", "ABCDEFGHIJ", "ABCDEFGHIJK"}
Names == {"A", "Al", Name50, Name51}
Decimals == {0, 9, 10}
TokenParamGrid == Symbols \X Names \X Decimals

\* The parameters the transitions draw: one accepted tuple, which the
\* TokenConfig then stores, and tuples refused for each reason and for
\* several at once.
TokenParams ==
  { <<"ABC", Name50, 9>>,
    <<"AB", "Al", 0>>, <<"ABCDEFGHIJK", "Al", 0>>,
    <<"ABC", "A", 0>>, <<"ABC", Name51, 0>>,
    <<"ABC", "Al", 10>>, <<"AB", "A", 10>>, <<"ABC", "A", 10>> }

\* ------------------------------------------------------------------ state
VARIABLES
  token_config,   \* [Mints -> TokenConfig]: the token_config PDA of each mint
  allowlist,      \* [Mints -> [Keys -> AllowlistEntry]]: the allowlist PDAs
  last,           \* the last instruction and its result
  minted,         \* history: sum of the amounts of the successful mint_tokens
  lastGate,       \* history: last successful approve/revoke per (mint, wallet)
  txs             \* [Slots -> transaction]: mint_tokens transactions in flight

vars == <<token_config, allowlist, last, minted, lastGate, txs>>

\* Option<i64>: <<>> is None, <<t>> is Some(t).
None == <<>>
Some(t) == <<t>>

\* An account that does not exist has exists = FALSE; a created account starts
\* zeroed.
NoTokenConfig ==
  [exists |-> FALSE, authority |-> NoKey, mint |-> NoKey, symbol |-> "",
   name |-> "", decimals |-> 0, total_supply |-> 0]

NoAllowlistEntry ==
  [exists |-> FALSE, wallet |-> NoKey, is_approved |-> FALSE,
   approved_at |-> 0, revoked_at |-> None]

NoCall == [op |-> "none", result |-> "Ok"]

\* A slot with no transaction in it.
Slots == {"tx1", "tx2"}
NoTx ==
  [pc |-> "idle", call |-> NoCall, base |-> 0, loaded |-> NoTokenConfig,
   result |-> "Ok"]

Init ==
  /\ token_config = [m \in Mints |-> NoTokenConfig]
  /\ allowlist = [m \in Mints |-> [w \in Keys |-> NoAllowlistEntry]]
  /\ last = NoCall
  /\ minted = [m \in Mints |-> 0]
  /\ lastGate = [m \in Mints |-> [w \in Keys |-> "none"]]
  /\ txs = [s \in Slots |-> NoTx]

\* ------------------------------------------------------------------ helpers
\* What an instruction computes: its result and the accounts as it leaves
\* them, the calls it made to the token program and the events it emitted.
Outcome(result, tc, al, ledger, events) ==
  [result |-> result, token_config |-> tc, allowlist |-> al,
   ledger |-> ledger, events |-> events]

Fail(result) == Outcome(result, token_config, allowlist, <<>>, <<>>)

\* init_if_needed in place of init: an existing account is reused.
init_if_needed(exists) == "Ok"

\* #[account(init, ...)]: the account is created, and creation fails when the
\* address is already in use (the specification's AlreadyExists).
init(exists) == IF exists THEN "AlreadyExists" ELSE "Ok"

\* An account taken without checking that it exists.
load_unchecked(exists) == "Ok"

\* Account<'info, T> without init: the account must already exist (the
\* specification's NotFound).
load(exists) == IF exists THEN "Ok" ELSE "NotFound"

\* The authority constraint left out.
authority_unchecked(cfg, authority) == "Ok"

\* constraint = token_config.authority == authority.key() @ UnauthorizedAuthority
authority_constraint(cfg, authority) ==
  IF cfg.authority = authority THEN "Ok" ELSE "UnauthorizedAuthority"

\* The owner constraint of a token account left out.
owner_unchecked(owner, key) == "Ok"

\* constraint = <token account>.owner == <key>
owner_constraint(owner, key) == IF owner = key THEN "Ok" ELSE "ConstraintRaw"

\* The first error of a sequence of checks, "Ok" when there is none.
RECURSIVE FirstError(_)
FirstError(checks) ==
  IF checks = <<>> THEN "Ok"
  ELSE IF Head(checks) # "Ok" THEN Head(checks)
  ELSE FirstError(Tail(checks))

\* u64::wrapping_add in place of checked_add.
wrapping_add(a, b) == Some((a + b) % (U64_MAX + 1))

\* u64::saturating_add in place of checked_add.
saturating_add(a, b) == Some(IF a + b > U64_MAX THEN U64_MAX ELSE a + b)

\* u64::checked_add
checked_add(a, b) == IF a + b > U64_MAX THEN None ELSE Some(a + b)

\* ------------------------------------------------------- the Ledger Service
\* token::mint_to: credits amount to the token account of owner `to`, or
\* fails (ok = FALSE).
mint_to(mint, to, amount, ok) ==
  [result |-> IF ok THEN "Ok" ELSE "LedgerError",
   call |-> [fn |-> "mint_to", mint |-> mint, from |-> NoKey, to |-> to,
             amount |-> amount]]

\* token::transfer: moves amount from the token account of owner `from` to
\* that of owner `to`, or fails (ok = FALSE).
transfer(mint, from, to, amount, ok) ==
  [result |-> IF ok THEN "Ok" ELSE "LedgerError",
   call |-> [fn |-> "transfer", mint |-> mint, from |-> from, to |-> to,
             amount |-> amount]]

\* -------------------------------------------------------- initialize_token
\* InitializeToken: mint and token_config are both created by the call.  The
\* model has a mint account exactly when it has the mint's token_config.
InitializeTokenAccounts(authority, mint) ==
  FirstError(<< init(token_config[mint].exists),      \* mint
                init(token_config[mint].exists) >>)   \* token_config

\* initialize_token with the name checked before the symbol.
initialize_token_body_name_first(authority, mint, symbol, name, decimals) ==
  IF ~(Len(name) >= 2 /\ Len(name) <= 50) THEN Fail("InvalidName")
  ELSE IF ~(Len(symbol) >= 3 /\ Len(symbol) <= 10) THEN Fail("InvalidSymbol")
  ELSE IF ~(decimals <= 9) THEN Fail("InvalidDecimals")
  ELSE Outcome("Ok",
         [token_config EXCEPT ![mint] =
            [exists |-> TRUE, authority |-> authority, mint |-> mint,
             symbol |-> symbol, name |-> name, decimals |-> decimals,
             total_supply |-> 0]],
         allowlist, <<>>, <<>>)

initialize_token_body(authority, mint, symbol, name, decimals) ==
  IF ~(Len(symbol) >= 3 /\ Len(symbol) <= 10) THEN Fail("InvalidSymbol")
  ELSE IF ~(Len(name) >= 2 /\ Len(name) <= 50) THEN Fail("InvalidName")
  ELSE IF ~(decimals <= 9) THEN Fail("InvalidDecimals")
  ELSE Outcome("Ok",
         [token_config EXCEPT ![mint] =
            [exists |-> TRUE, authority |-> authority, mint |-> mint,
             symbol |-> symbol, name |-> name, decimals |-> decimals,
             total_supply |-> 0]],
         allowlist, <<>>,
         << [event |-> "TokenInitializedEvent", authority |-> authority,
             mint |-> mint, symbol |-> symbol, name |-> name,
             decimals |-> decimals] >>)

initialize_token(authority, mint, symbol, name, decimals) ==
  LET accounts == InitializeTokenAccounts(authority, mint)
  IN IF accounts # "Ok" THEN Fail(accounts)
     ELSE initialize_token_body(authority, mint, symbol, name, decimals)

\* ---------------------------------------------------------- approve_wallet
\* ApproveWallet: token_config is loaded, allowlist_entry is created (init),
\* then token_config's authority constraint is evaluated.
ApproveWalletAccounts(authority, mint, wallet) ==
  FirstError(<< load(token_config[mint].exists),
                init(allowlist[mint][wallet].exists),
                authority_constraint(token_config[mint], authority) >>)

approve_wallet_body(authority, mint, wallet, unix_timestamp) ==
  Outcome("Ok", token_config,
    [allowlist EXCEPT ![mint][wallet] =
       [@ EXCEPT !.exists = TRUE, !.wallet = wallet, !.is_approved = TRUE,
                 !.approved_at = unix_timestamp]],
    <<>>,
    << [event |-> "WalletApprovedEvent", token_mint |-> token_config[mint].mint,
        wallet |-> wallet, approved_by |-> authority,
        timestamp |-> unix_timestamp] >>)

approve_wallet(authority, mint, wallet, unix_timestamp) ==
  LET accounts == ApproveWalletAccounts(authority, mint, wallet)
  IN IF accounts # "Ok" THEN Fail(accounts)
     ELSE approve_wallet_body(authority, mint, wallet, unix_timestamp)

\* ----------------------------------------------------------- revoke_wallet
RevokeWalletAccounts(authority, mint, wallet) ==
  FirstError(<< load(token_config[mint].exists),
                load(allowlist[mint][wallet].exists),
                authority_constraint(token_config[mint], authority) >>)

\* revoke_wallet that keeps the time of the first revocation.
revoke_wallet_body_keep_first(authority, mint, wallet, unix_timestamp) ==
  Outcome("Ok", token_config,
    [allowlist EXCEPT ![mint][wallet] =
       [@ EXCEPT !.is_approved = FALSE,
                 !.revoked_at = IF @ = None THEN Some(unix_timestamp) ELSE @]],
    <<>>, <<>>)

revoke_wallet_body(authority, mint, wallet, unix_timestamp) ==
  Outcome("Ok", token_config,
    [allowlist EXCEPT ![mint][wallet] =
       [@ EXCEPT !.is_approved = FALSE, !.revoked_at = Some(unix_timestamp)]],
    <<>>,
    << [event |-> "WalletRevokedEvent", token_mint |-> token_config[mint].mint,
        wallet |-> wallet, revoked_by |-> authority,
        timestamp |-> unix_timestamp] >>)

revoke_wallet(authority, mint, wallet, unix_timestamp) ==
  LET accounts == RevokeWalletAccounts(authority, mint, wallet)
  IN IF accounts # "Ok" THEN Fail(accounts)
     ELSE revoke_wallet_body(authority, mint, wallet, unix_timestamp)

\* ------------------------------------------------------------- mint_tokens
\* MintTokens: token_config, mint, recipient_token_account (owned by
\* account_owner) and recipient_allowlist_entry are loaded, then the
\* constraints of token_config and of recipient_token_account are evaluated.
MintTokensAccounts(authority, mint, recipient, account_owner) ==
  FirstError(<< load(token_config[mint].exists),
                load(allowlist[mint][recipient].exists),
                authority_constraint(token_config[mint], authority),
                owner_constraint(account_owner, recipient) >>)

\* mint_tokens without its approval check.
mint_gate_unchecked(recipient_entry) == "Ok"

\* require!(recipient_entry.is_approved, ErrorCode::WalletNotApproved)
mint_gate(recipient_entry) ==
  IF recipient_entry.is_approved THEN "Ok" ELSE "WalletNotApproved"

\* token_config.total_supply = total_supply.checked_add(amount).ok_or(Overflow)?
\* and the TokensMintedEvent after it, given the CPI that succeeded.
record_mint(mint, recipient, amount, cpi) ==
  LET sum == checked_add(token_config[mint].total_supply, amount)
  IN IF sum = None
     THEN Outcome("Overflow", token_config, allowlist, <<cpi.call>>, <<>>)
     ELSE Outcome("Ok",
            [token_config EXCEPT ![mint].total_supply = sum[1]],
            allowlist, <<cpi.call>>,
            << [event |-> "TokensMintedEvent", token_mint |-> mint,
                recipient |-> recipient, amount |-> amount,
                new_supply |-> sum[1]] >>)

\* token::mint_to(cpi_ctx, amount) with its result dropped.
mint_cpi_unchecked(mint, recipient, account_owner, amount, ledger_ok) ==
  record_mint(mint, recipient, amount,
              mint_to(mint, account_owner, amount, ledger_ok))

\* token::mint_to(cpi_ctx, amount)?; and what follows it.
mint_cpi(mint, recipient, account_owner, amount, ledger_ok) ==
  LET cpi == mint_to(mint, account_owner, amount, ledger_ok)
  IN IF cpi.result # "Ok"
     THEN Outcome(cpi.result, token_config, allowlist, <<cpi.call>>, <<>>)
     ELSE record_mint(mint, recipient, amount, cpi)

\* mint_tokens with the approval check before the amount check.
mint_tokens_body_gate_first(authority, mint, recipient, account_owner, amount, ledger_ok) ==
  IF mint_gate(allowlist[mint][recipient]) # "Ok"
  THEN Fail(mint_gate(allowlist[mint][recipient]))
  ELSE IF ~(amount > 0) THEN Fail("InvalidAmount")
  ELSE mint_cpi(mint, recipient, account_owner, amount, ledger_ok)

mint_tokens_body(authority, mint, recipient, account_owner, amount, ledger_ok) ==
  IF ~(amount > 0) THEN Fail("InvalidAmount")
  ELSE IF mint_gate(allowlist[mint][recipient]) # "Ok"
       THEN Fail(mint_gate(allowlist[mint][recipient]))
  ELSE mint_cpi(mint, recipient, account_owner, amount, ledger_ok)

mint_tokens(authority, mint, recipient, account_owner, amount, ledger_ok) ==
  LET accounts == MintTokensAccounts(authority, mint, recipient, account_owner)
  IN IF accounts # "Ok" THEN Fail(accounts)
     ELSE mint_tokens_body(authority, mint, recipient, account_owner, amount,
                           ledger_ok)

\* ---------------------------------------------------------- gated_transfer
\* GatedTransfer: token_config, mint, from_token_account (owned by
\* from_owner), to_token_account (owned by to_owner) and the two allowlist
\* entries, the sender's keyed by the signer, are loaded; then the owner
\* constraints of the two token accounts are evaluated.
\* GatedTransfer with the authority constraint of MintTokens added.
GatedTransferAccounts_authority_only(authority, mint, recipient, from_owner, to_owner) ==
  FirstError(<< load(token_config[mint].exists),
                load(allowlist[mint][authority].exists),
                load(allowlist[mint][recipient].exists),
                authority_constraint(token_config[mint], authority),
                owner_constraint(from_owner, authority),
                owner_constraint(to_owner, recipient) >>)

GatedTransferAccounts(authority, mint, recipient, from_owner, to_owner) ==
  FirstError(<< load(token_config[mint].exists),
                load(allowlist[mint][authority].exists),
                load(allowlist[mint][recipient].exists),
                owner_constraint(from_owner, authority),
                owner_constraint(to_owner, recipient) >>)

\* The two checks of gated_transfer in the other order.
transfer_gate_recipient_first(sender_entry, recipient_entry) ==
  IF ~recipient_entry.is_approved THEN "RecipientNotApproved"
  ELSE IF ~sender_entry.is_approved THEN "SenderNotApproved"
  ELSE "Ok"

\* require!(sender_entry.is_approved, SenderNotApproved);
\* require!(recipient_entry.is_approved, RecipientNotApproved);
transfer_gate(sender_entry, recipient_entry) ==
  IF ~sender_entry.is_approved THEN "SenderNotApproved"
  ELSE IF ~recipient_entry.is_approved THEN "RecipientNotApproved"
  ELSE "Ok"

\* token::transfer(cpi_ctx, amount)?; without the emit! that follows it.
transfer_cpi_no_event(authority, mint, recipient, from_owner, to_owner, amount, ledger_ok) ==
  LET cpi == transfer(mint, from_owner, to_owner, amount, ledger_ok)
  IN Outcome(cpi.result, token_config, allowlist, <<cpi.call>>, <<>>)

\* token::transfer(cpi_ctx, amount)?; and the TokensTransferredEvent.
transfer_cpi(authority, mint, recipient, from_owner, to_owner, amount, ledger_ok) ==
  LET cpi == transfer(mint, from_owner, to_owner, amount, ledger_ok)
  IN IF cpi.result # "Ok"
     THEN Outcome(cpi.result, token_config, allowlist, <<cpi.call>>, <<>>)
     ELSE Outcome("Ok", token_config, allowlist, <<cpi.call>>,
            << [event |-> "TokensTransferredEvent", token_mint |-> mint,
                from |-> authority, to |-> recipient, amount |-> amount] >>)

gated_transfer_body(authority, mint, recipient, from_owner, to_owner, amount, ledger_ok) ==
  LET gate == transfer_gate(allowlist[mint][authority], allowlist[mint][recipient])
  IN IF ~(amount > 0) THEN Fail("InvalidAmount")
     ELSE IF gate # "Ok" THEN Fail(gate)
     ELSE transfer_cpi(authority, mint, recipient, from_owner, to_owner,
                       amount, ledger_ok)

gated_transfer(authority, mint, recipient, from_owner, to_owner, amount, ledger_ok) ==
  LET accounts ==
        GatedTransferAccounts(authority, mint, recipient, from_owner, to_owner)
  IN IF accounts # "Ok" THEN Fail(accounts)
     ELSE gated_transfer_body(authority, mint, recipient, from_owner, to_owner,
                              amount, ledger_ok)

\* ----------------------------------------------------------------- actions
\* A call: the instruction, its signer, the accounts it is given, its
\* arguments and, for the two instructions that read the clock, the time
\* Clock::get() returns.  wallet is the `wallet` / `recipient` account,
\* from_owner and to_owner the owners of the token accounts passed
\* (mint_tokens is given one token account, recorded as to_owner).
Call(op, authority, mint, wallet, from_owner, to_owner, amount, ledger_ok, params, now) ==
  [op |-> op, authority |-> authority, mint |-> mint, wallet |-> wallet,
   from_owner |-> from_owner, to_owner |-> to_owner, amount |-> amount,
   ledger_ok |-> ledger_ok, params |-> params, now |-> now]

\* The clock never runs backwards: the time an instruction reads is no
\* earlier than any timestamp an earlier instruction stored.
Stamps ==
  UNION { {allowlist[m][w].approved_at} \cup
          {allowlist[m][w].revoked_at[k] :
             k \in 1..Len(allowlist[m][w].revoked_at)} :
          m \in Mints, w \in Keys }

ClockNow == { t \in 0..MaxTime : \A u \in Stamps : u <= t }

\* initialize_token on every tuple of TokenParamGrid; the properties of the
\* instruction are stated over these, the transitions take the calls of
\* InitializeTokenCalls among them.
InitializeTokenInputs ==
  { Call("initialize_token", a, m, NoKey, NoKey, NoKey, 0, TRUE, p, 0) :
      a \in Keys, m \in Mints, p \in TokenParamGrid }

InitializeTokenCalls ==
  { Call("initialize_token", a, m, NoKey, NoKey, NoKey, 0, TRUE, p, 0) :
      a \in Keys, m \in Mints, p \in TokenParams }

ApproveWalletCalls ==
  { Call("approve_wallet", a, m, w, NoKey, NoKey, 0, TRUE, <<>>, t) :
      a \in Keys, m \in Mints, w \in Keys, t \in ClockNow }

RevokeWalletCalls ==
  { Call("revoke_wallet", a, m, w, NoKey, NoKey, 0, TRUE, <<>>, t) :
      a \in Keys, m \in Mints, w \in Keys, t \in ClockNow }

MintTokensCalls ==
  { Call("mint_tokens", x[1], m, x[2], NoKey, x[3], n, ok, <<>>, 0) :
      x \in Keys \X Keys \X Keys, m \in Mints, n \in Amounts, ok \in BOOLEAN }

GatedTransferCalls ==
  { Call("gated_transfer", x[1], m, x[2], x[3], x[4], n, ok, <<>>, 0) :
      x \in Keys \X Keys \X Keys \X Keys, m \in Mints, n \in Amounts,
      ok \in BOOLEAN }

Calls ==
  InitializeTokenCalls \cup ApproveWalletCalls \cup RevokeWalletCalls
    \cup MintTokensCalls \cup GatedTransferCalls

\* The program's entry point: the instruction's handler on the call's inputs.
Run(c) ==
  CASE c.op = "initialize_token" ->
         initialize_token(c.authority, c.mint, c.params[1], c.params[2],
                          c.params[3])
    [] c.op = "approve_wallet" ->
         approve_wallet(c.authority, c.mint, c.wallet, c.now)
    [] c.op = "revoke_wallet" ->
         revoke_wallet(c.authority, c.mint, c.wallet, c.now)
    [] c.op = "mint_tokens" ->
         mint_tokens(c.authority, c.mint, c.wallet, c.to_owner, c.amount,
                     c.ledger_ok)
    [] c.op = "gated_transfer" ->
         gated_transfer(c.authority, c.mint, c.wallet, c.from_owner,
                        c.to_owner, c.amount, c.ledger_ok)

\* What an instruction leaves behind.  When it returned Ok: the accounts it
\* computed, the effects of its calls to the token program and its events.
\* When it returned Err: the accounts it started from, and nothing else.
Committed(out) ==
  IF out.result = "Ok" THEN out
  ELSE [out EXCEPT !.token_config = token_config, !.allowlist = allowlist,
                   !.ledger = <<>>, !.events = <<>>]

Execute(c) ==
  \E done \in {Committed(Run(c))} :
     /\ token_config' = done.token_config
     /\ allowlist' = done.allowlist
     /\ last' = [op |-> c.op, result |-> done.result]
     /\ minted' = IF c.op = "mint_tokens" /\ done.result = "Ok"
                  THEN [minted EXCEPT ![c.mint] = @ + c.amount]
                  ELSE minted
     /\ lastGate' = IF c.op \in {"approve_wallet", "revoke_wallet"}
                       /\ done.result = "Ok"
                    THEN [lastGate EXCEPT ![c.mint][c.wallet] = c.op]
                    ELSE lastGate
     /\ UNCHANGED txs

InitializeToken == \E c \in InitializeTokenCalls : Execute(c)

ApproveWallet == \E c \in ApproveWalletCalls : Execute(c)

RevokeWallet == \E c \in RevokeWalletCalls : Execute(c)

MintTokens == \E c \in MintTokensCalls : Execute(c)

GatedTransfer == \E c \in GatedTransferCalls : Execute(c)

Next ==
  \/ InitializeToken
  \/ ApproveWallet
  \/ RevokeWallet
  \/ MintTokens
  \/ GatedTransfer

Spec == Init /\ [][Next]_vars

\* ------------------------------------------------------- a clock at rest
\* The clock is read by approve_wallet and revoke_wallet only, and what they
\* store (approved_at, revoked_at) is read back by no instruction.
\* SpecStillClock is Spec with every instruction run at time 0: it reaches
\* the states of Spec with their timestamps set to 0.
StillClockCalls == { c \in Calls : c.now = 0 }

ExecuteStill == \E c \in StillClockCalls : Execute(c)

SpecStillClock == Init /\ [][ExecuteStill]_vars

\* --------------------------------------------------- concurrent mint_tokens
\* Two mint_tokens transactions submitted together.  MintTokens declares
\* token_config `mut`, so each transaction names the account writable and the
\* runtime runs it only while no other transaction holds that account.  A
\* transaction that runs has token_config deserialized into its own copy,
\* the handler works on the copy, and the copy is written back when the
\* instruction exits.  The clock stands still: mint_tokens does not read it.

\* The instructions that prepare the accounts before the two mints.
SetupCalls == { c \in Calls : c.now = 0 /\ c.op # "gated_transfer" }

\* The mint_tokens calls submitted together: any signer, any recipient with
\* its own token account, any amount > 0, accepted by the token program.
ConcurrentMints ==
  { c \in MintTokensCalls :
      c.amount > 0 /\ c.to_owner = c.wallet /\ c.ledger_ok }

\* Transactions that run one to the end before the next starts are those of
\* Spec; here they prepare the accounts, and only those that succeed matter.
ConcurrentSetup ==
  /\ \A s \in Slots : txs[s].pc = "idle"
  /\ \E c \in SetupCalls :
       /\ Committed(Run(c)).result = "Ok"
       /\ Execute(c)

SubmitMints ==
  /\ \A s \in Slots : txs[s].pc = "idle"
  /\ \E c1 \in ConcurrentMints, c2 \in ConcurrentMints :
       /\ c1.mint = c2.mint
       /\ txs' = [s \in Slots |->
                   [pc |-> "submitted",
                    call |-> IF s = "tx1" THEN c1 ELSE c2,
                    base |-> token_config[c1.mint].total_supply,
                    loaded |-> NoTokenConfig, result |-> "Ok"]]
  /\ UNCHANGED <<token_config, allowlist, last, minted, lastGate>>

\* No write lock at all: a transaction runs whatever the others do.
no_write_lock(s) == TRUE

\* #[account(mut, ...)] token_config: the account is writable in the
\* transaction, which runs only when no other running transaction has it.
write_lock_free(s) ==
  \A t \in Slots \ {s} :
    ~(txs[t].pc = "loaded" /\ txs[t].call.mint = txs[s].call.mint)

\* The transaction starts: token_config is deserialized into its own copy.
LockAndLoad ==
  \E s \in Slots :
    /\ txs[s].pc = "submitted"
    /\ write_lock_free(s)
    /\ txs' = [txs EXCEPT ![s].pc = "loaded",
                          ![s].loaded = token_config[txs[s].call.mint]]
    /\ UNCHANGED <<token_config, allowlist, last, minted, lastGate>>

\* mint_tokens on the copy `loaded` of token_config: account validation, the
\* checks and the CPI as in Run, then checked_add on the copy's total_supply.
\* The result, and the TokenConfig written back when it is Ok.
mint_tokens_on(loaded, c) ==
  LET out == Run(c)
      sum == checked_add(loaded.total_supply, c.amount)
  IN IF out.result \notin {"Ok", "Overflow"}
     THEN [result |-> out.result, written |-> loaded]
     ELSE IF sum = None
     THEN [result |-> "Overflow", written |-> loaded]
     ELSE [result |-> "Ok",
           written |-> [loaded EXCEPT !.total_supply = sum[1]]]

\* The transaction ends: on Ok the copy is written back, on Err nothing is.
RunAndStore ==
  \E s \in Slots :
    /\ txs[s].pc = "loaded"
    /\ \E done \in {mint_tokens_on(txs[s].loaded, txs[s].call)} :
         /\ token_config' =
              IF done.result = "Ok"
              THEN [token_config EXCEPT ![txs[s].call.mint] = done.written]
              ELSE token_config
         /\ minted' =
              IF done.result = "Ok"
              THEN [minted EXCEPT ![txs[s].call.mint] = @ + txs[s].call.amount]
              ELSE minted
         /\ last' = [op |-> "mint_tokens", result |-> done.result]
         /\ txs' = [txs EXCEPT ![s].pc = "done", ![s].result = done.result]
    /\ UNCHANGED <<allowlist, lastGate>>

NextConcurrent ==
  \/ ConcurrentSetup
  \/ SubmitMints
  \/ LockAndLoad
  \/ RunAndStore

SpecConcurrent == Init /\ [][NextConcurrent]_vars

\* ------------------------------------------------------------------ claims
\* The properties below quantify over every call the program accepts: in a
\* reachable state, Run(c) is what the instruction computes on call c and
\* Committed(Run(c)) is what it leaves behind.  (\A out \in {Run(c)} names
\* the outcome once.)

LedgerCalls(out) == { out.ledger[k] : k \in 1..Len(out.ledger) }

Approved(m, w) == allowlist[m][w].exists /\ allowlist[m][w].is_approved

GateErrors == {"WalletNotApproved", "SenderNotApproved", "RecipientNotApproved"}

\* C1: the token program's mint_to is called only by mint_tokens, and only for
\* a token account whose owner has an existing, approved allowlist entry; its
\* transfer is called only by gated_transfer, and only between token accounts
\* whose owners both have existing, approved entries.  A wallet whose last
\* successful approve/revoke was a revoke is never the target of a mint_to
\* nor an end of a transfer.
C1_LedgerOnlyForApproved ==
  \A c \in Calls :
   \A out \in {Run(c)} :
    \A call \in LedgerCalls(out) :
      /\ call.fn \in {"mint_to", "transfer"}
      /\ call.fn = "mint_to" =>
           /\ c.op = "mint_tokens"
           /\ Approved(c.mint, call.to)
           /\ lastGate[c.mint][call.to] = "approve_wallet"
      /\ call.fn = "transfer" =>
           /\ c.op = "gated_transfer"
           /\ Approved(c.mint, call.from) /\ Approved(c.mint, call.to)
           /\ lastGate[c.mint][call.from] = "approve_wallet"
           /\ lastGate[c.mint][call.to] = "approve_wallet"

\* A wallet has been revoked on a token with supply, and a mint or transfer
\* involving a wallet that is not approved has just been refused.
C1_Witness ==
  /\ last.op \in {"mint_tokens", "gated_transfer"}
  /\ last.result \in GateErrors
  /\ \E m \in Mints, w \in Keys :
       lastGate[m][w] = "revoke_wallet" /\ minted[m] > 0

ValidTokenParams(p) ==
  /\ Len(p[1]) \in 3..10
  /\ Len(p[2]) \in 2..50
  /\ p[3] \in 0..9

\* C2: initialize_token on a mint that has no TokenConfig succeeds for every
\* (symbol, name, decimals) within bounds and creates the TokenConfig; on a
\* mint that has one it fails with AlreadyExists and leaves the TokenConfig,
\* its authority and total_supply included, as it was.
C2_InitializeOnce ==
  \A c \in InitializeTokenInputs :
    \A done \in {Committed(Run(c))} :
       /\ token_config[c.mint].exists =>
            /\ done.result = "AlreadyExists"
            /\ done.token_config = token_config
       /\ ~token_config[c.mint].exists /\ ValidTokenParams(c.params) =>
            /\ done.result = "Ok"
            /\ done.token_config[c.mint].exists
            /\ done.token_config[c.mint].authority = c.authority
            /\ done.token_config[c.mint].total_supply = 0

\* A second initialize_token has just failed on a token that has supply.
C2_Witness ==
  /\ last = [op |-> "initialize_token", result |-> "AlreadyExists"]
  /\ \E m \in Mints : token_config[m].total_supply > 0

\* C3: total_supply is the sum of the amounts of the successful mint_tokens
\* calls (0 after initialize_token).  A mint of b on a supply of a that
\* succeeds leaves a + b; when a + b exceeds u64::MAX the mint fails, with
\* Overflow once the ledger mint has succeeded, and the supply stays a.
C3_SupplyIsSumOfMints ==
  /\ \A m \in Mints : token_config[m].total_supply = minted[m]
  /\ \A c \in MintTokensCalls :
     \A out \in {Run(c)} : \A done \in {Committed(out)} :
       LET a == token_config[c.mint].total_supply
           b == c.amount
       IN /\ done.result = "Ok" =>
               done.token_config[c.mint].total_supply = a + b
          /\ a + b > U64_MAX =>
               /\ done.result # "Ok"
               /\ done.token_config[c.mint].total_supply = a
               /\ (out.ledger # <<>> /\ c.ledger_ok) => done.result = "Overflow"

\* After a successful mint of a > 0, a mint of b with a + b beyond u64::MAX
\* has just failed with Overflow.
C3_Witness ==
  /\ last = [op |-> "mint_tokens", result |-> "Overflow"]
  /\ \E m \in Mints :
       /\ token_config[m].total_supply \in 1..(U64_MAX - 1)
       /\ token_config[m].total_supply = minted[m]

IsAuthority(c) ==
  token_config[c.mint].exists /\ c.authority = token_config[c.mint].authority

\* C4: once a wallet has been approved and then revoked, its entry has
\* is_approved = FALSE and revoked_at set, and an approve_wallet by the
\* authority on it succeeds: is_approved is TRUE again, approved_at is the new
\* time and revoked_at is that of the prior revocation.
C4_ReapproveAfterRevoke ==
  \A c \in ApproveWalletCalls :
    (IsAuthority(c) /\ lastGate[c.mint][c.wallet] = "revoke_wallet") =>
      LET entry == allowlist[c.mint][c.wallet]
          done == Committed(Run(c))
          after == done.allowlist[c.mint][c.wallet]
      IN /\ ~entry.is_approved
         /\ entry.revoked_at # None
         /\ done.result = "Ok"
         /\ after.is_approved
         /\ after.approved_at = c.now
         /\ after.revoked_at = entry.revoked_at

\* C5: mint_tokens by the authority with amount > 0 fails with NotFound when
\* the recipient has no allowlist entry, and with WalletNotApproved when the
\* recipient's entry (the token account being the recipient's) has
\* is_approved = FALSE; in both cases total_supply is unchanged and the token
\* program is not called.
C5_MintNeedsApprovedEntry ==
  \A c \in MintTokensCalls :
    (IsAuthority(c) /\ c.amount > 0) =>
     \A out \in {Run(c)} : \A done \in {Committed(out)} :
      LET entry == allowlist[c.mint][c.wallet]
      IN /\ ~entry.exists => done.result = "NotFound"
         /\ (entry.exists /\ ~entry.is_approved /\ c.to_owner = c.wallet) =>
              done.result = "WalletNotApproved"
         /\ (~entry.exists \/ ~entry.is_approved) =>
              /\ done.result # "Ok"
              /\ out.ledger = <<>>
              /\ done.token_config = token_config

\* A mint to a revoked wallet has just been refused, on a token with supply.
C5_Witness ==
  /\ last = [op |-> "mint_tokens", result |-> "WalletNotApproved"]
  /\ \E m \in Mints : token_config[m].total_supply > 0

\* C6: gated_transfer succeeds only when the sender's and the recipient's
\* entries both have is_approved = TRUE.  With amount > 0, both entries
\* present and the token accounts those of the sender and the recipient, it
\* fails with SenderNotApproved when the sender is not approved, whatever the
\* recipient's flag, and with RecipientNotApproved when the sender is approved
\* and the recipient is not; on either failure the token program is not
\* called.
C6_TransferGate ==
  \A c \in GatedTransferCalls :
   \A out \in {Run(c)} : \A done \in {Committed(out)} :
    LET sender == allowlist[c.mint][c.authority]
        recipient == allowlist[c.mint][c.wallet]
    IN /\ done.result = "Ok" =>
            Approved(c.mint, c.authority) /\ Approved(c.mint, c.wallet)
       /\ ( /\ sender.exists /\ recipient.exists
            /\ c.from_owner = c.authority /\ c.to_owner = c.wallet
            /\ c.amount > 0 ) =>
            /\ ~sender.is_approved =>
                 done.result = "SenderNotApproved" /\ out.ledger = <<>>
            /\ (sender.is_approved /\ ~recipient.is_approved) =>
                 done.result = "RecipientNotApproved" /\ out.ledger = <<>>

\* A transfer from a wallet that is not approved has just been refused while
\* another wallet is approved.
C6_Witness ==
  /\ last = [op |-> "gated_transfer", result |-> "SenderNotApproved"]
  /\ \E m \in Mints, w \in Keys : Approved(m, w)

\* C7: in every state and for every other input, approve_wallet or
\* mint_tokens by a caller who is not TokenConfig.authority fails with
\* UnauthorizedAuthority and changes no entry, supply or ledger balance.
C7_NonAuthorityUnauthorized ==
  \A c \in ApproveWalletCalls \cup MintTokensCalls :
    (token_config[c.mint].exists /\ c.authority # token_config[c.mint].authority) =>
      \A done \in {Committed(Run(c))} :
         /\ done.result = "UnauthorizedAuthority"
         /\ done.token_config = token_config
         /\ done.allowlist = allowlist
         /\ done.ledger = <<>>

\* C8: when the token program's mint_to fails, mint_tokens fails with its
\* error, total_supply is not updated and no event is emitted; and every
\* instruction that returns an error leaves every TokenConfig and
\* AllowlistEntry as it was, and emits no event.
C8_NoPartialStateOnError ==
  /\ \A c \in MintTokensCalls :
       \A out \in {Run(c)} :
          (out.ledger # <<>> /\ ~c.ledger_ok) =>
            /\ out.result = "LedgerError"
            /\ out.token_config = token_config
            /\ out.events = <<>>
  /\ \A c \in Calls :
       \A out \in {Run(c)} : \A done \in {Committed(out)} :
          out.result # "Ok" =>
            /\ out.token_config = token_config
            /\ out.allowlist = allowlist
            /\ out.events = <<>>
            /\ done.token_config = token_config
            /\ done.allowlist = allowlist
            /\ done.events = <<>>

\* A mint has just failed in the token program, on a token with supply.
C8_Witness ==
  /\ last = [op |-> "mint_tokens", result |-> "LedgerError"]
  /\ \E m \in Mints : token_config[m].total_supply > 0

\* C9: a mint_tokens whose amount would take total_supply above u64::MAX
\* does not succeed, fails with Overflow once the ledger mint has succeeded,
\* and has no effect: total_supply and the entries are unchanged, no call to
\* the token program stays applied and no event is emitted.  total_supply
\* never exceeds u64::MAX.
C9_OverflowRejected ==
  /\ \A m \in Mints : token_config[m].total_supply <= U64_MAX
  /\ \A c \in MintTokensCalls :
       \A out \in {Run(c)} : \A done \in {Committed(out)} :
          token_config[c.mint].total_supply + c.amount > U64_MAX =>
            /\ done.result # "Ok"
            /\ (out.ledger # <<>> /\ c.ledger_ok) => done.result = "Overflow"
            /\ done.token_config = token_config
            /\ done.ledger = <<>>
            /\ done.allowlist = allowlist
            /\ done.events = <<>>

\* A mint on a full supply has just failed with Overflow.
C9_Witness ==
  /\ last = [op |-> "mint_tokens", result |-> "Overflow"]
  /\ \E m \in Mints :
       /\ token_config[m].total_supply = U64_MAX
       /\ minted[m] = U64_MAX

\* C10: approve_wallet by the authority succeeds whether the entry is absent
\* or present, and leaves one entry for the pair with is_approved = TRUE and
\* approved_at the time of the call.
C10_ApproveTwice ==
  \A c \in ApproveWalletCalls :
    IsAuthority(c) =>
      LET done == Committed(Run(c))
          after == done.allowlist[c.mint][c.wallet]
      IN /\ done.result = "Ok"
         /\ after.exists
         /\ after.is_approved
         /\ after.approved_at = c.now

C12_TransferFrame ==
  \A c \in GatedTransferCalls :
    \A out \in {Run(c)} : \A done \in {Committed(out)} :
      /\ out.token_config = token_config
      /\ out.allowlist = allowlist
      /\ done.token_config = token_config
      /\ done.allowlist = allowlist
      /\ done.result = "Ok" =>
           /\ done.ledger =
                << [fn |-> "transfer", mint |-> c.mint, from |-> c.authority,
                    to |-> c.wallet, amount |-> c.amount] >>
           /\ done.events =
                << [event |-> "TokensTransferredEvent", token_mint |-> c.mint,
                    from |-> c.authority, to |-> c.wallet,
                    amount |-> c.amount] >>
      /\ done.result # "Ok" => done.ledger = <<>> /\ done.events = <<>>

\* A gated_transfer has just succeeded on a token with supply.
C12_Witness ==
  /\ last = [op |-> "gated_transfer", result |-> "Ok"]
  /\ \E m \in Mints : token_config[m].total_supply > 0 /\ minted[m] > 0

\* C13: revoke_wallet by the authority on an entry that exists, approved or
\* already revoked, succeeds and leaves is_approved = FALSE and revoked_at =
\* Some(now), with wallet and approved_at as they were.  On an entry whose
\* last change was a revoke_wallet this is the second revocation in a row:
\* is_approved stays FALSE and revoked_at becomes the time of the second call.
C13_RevokeSetsFlagAndTime ==
  \A c \in RevokeWalletCalls :
    (IsAuthority(c) /\ allowlist[c.mint][c.wallet].exists) =>
      \A done \in {Committed(Run(c))} :
        LET entry == allowlist[c.mint][c.wallet]
            after == done.allowlist[c.mint][c.wallet]
        IN /\ done.result = "Ok"
           /\ after.exists
           /\ after.is_approved = FALSE
           /\ after.revoked_at = Some(c.now)
           /\ after.wallet = entry.wallet
           /\ after.approved_at = entry.approved_at
           /\ \A w \in Keys \ {c.wallet} :
                done.allowlist[c.mint][w] = allowlist[c.mint][w]

\* A revoke_wallet has just succeeded at a time later than the approval.
C13_Witness ==
  /\ last = [op |-> "revoke_wallet", result |-> "Ok"]
  /\ \E m \in Mints, w \in Keys :
       /\ lastGate[m][w] = "revoke_wallet"
       /\ ~allowlist[m][w].is_approved
       /\ allowlist[m][w].approved_at = 0
       /\ allowlist[m][w].revoked_at = Some(MaxTime)

\* C14: revoke_wallet fails with NotFound when the (mint, wallet) pair has no
\* AllowlistEntry, whoever signs, and with UnauthorizedAuthority when the
\* entry exists and the signer is not TokenConfig.authority.  In both cases
\* no entry is created and every entry, is_approved and revoked_at included,
\* is as it was.
C14_RevokeErrors ==
  \A c \in RevokeWalletCalls :
    \A done \in {Committed(Run(c))} :
      /\ ~allowlist[c.mint][c.wallet].exists =>
           /\ done.result = "NotFound"
           /\ done.allowlist = allowlist
           /\ done.token_config = token_config
      /\ (allowlist[c.mint][c.wallet].exists /\ ~IsAuthority(c)) =>
           /\ done.result = "UnauthorizedAuthority"
           /\ done.allowlist = allowlist
           /\ done.token_config = token_config

\* C14 as stated, each error for its condition alone: NotFound whenever the
\* pair has no entry and UnauthorizedAuthority whenever the signer is not the
\* authority, the entry absent or not.
C14_RevokeErrorsAsStated ==
  \A c \in RevokeWalletCalls :
    \A done \in {Committed(Run(c))} :
      /\ ~allowlist[c.mint][c.wallet].exists =>
           /\ done.result = "NotFound"
           /\ done.allowlist = allowlist
      /\ (token_config[c.mint].exists /\ ~IsAuthority(c)) =>
           /\ done.result = "UnauthorizedAuthority"
           /\ done.allowlist = allowlist

\* A revoke_wallet on a wallet without an entry has just failed with
\* NotFound, on a token that has an approved wallet.
C14_Witness ==
  /\ last = [op |-> "revoke_wallet", result |-> "NotFound"]
  /\ \E m \in Mints :
       /\ token_config[m].exists
       /\ \E w \in Keys : Approved(m, w)
       /\ \E w \in Keys : ~allowlist[m][w].exists

\* C16: a TokenConfig that exists stays: no instruction, successful or
\* failed, deletes it or changes its authority, mint, symbol, name or
\* decimals.  Its total_supply differs after an instruction only when the
\* instruction is a mint_tokens that succeeded, and is then larger;
\* approve_wallet, revoke_wallet, gated_transfer and every failed instruction
\* leave the whole TokenConfig as it was.
C16_TokenConfigFrame ==
  \A c \in Calls :
    \A done \in {Committed(Run(c))} :
      \A m \in Mints :
        LET before == token_config[m]
            after == done.token_config[m]
        IN before.exists =>
             /\ after.exists
             /\ after.authority = before.authority
             /\ after.mint = before.mint
             /\ after.symbol = before.symbol
             /\ after.name = before.name
             /\ after.decimals = before.decimals
             /\ after.total_supply >= before.total_supply
             /\ after # before =>
                  /\ c.op = "mint_tokens"
                  /\ c.mint = m
                  /\ done.result = "Ok"
                  /\ after.total_supply = before.total_supply + c.amount

\* An approve_wallet, a revoke_wallet or a gated_transfer has just succeeded
\* on a token whose supply is positive.
C16_Witness ==
  /\ last.op \in {"approve_wallet", "revoke_wallet", "gated_transfer"}
  /\ last.result = "Ok"
  /\ \E m \in Mints :
       /\ token_config[m].exists
       /\ token_config[m].total_supply = minted[m]
       /\ minted[m] > 0

\* C17: a (mint, wallet) pair has at most one AllowlistEntry, the one at the
\* pair's own address, which records that wallet.  The entry exists exactly
\* when an approve_wallet on the pair has succeeded; only an approve_wallet
\* signed by the mint's authority creates it, and no instruction deletes it.
\* Its is_approved is TRUE exactly when the last successful approve_wallet or
\* revoke_wallet on the pair was an approve_wallet.
C17_EntryLifecycle ==
  /\ \A m \in Mints, w \in Keys :
       LET entry == allowlist[m][w]
       IN /\ entry.exists <=> lastGate[m][w] # "none"
          /\ entry.exists => entry.wallet = w
          /\ entry.exists => token_config[m].exists
          /\ entry.is_approved <=> lastGate[m][w] = "approve_wallet"
  /\ \A c \in Calls :
       \A done \in {Committed(Run(c))} :
         \A m \in Mints, w \in Keys :
           /\ allowlist[m][w].exists => done.allowlist[m][w].exists
           /\ (~allowlist[m][w].exists /\ done.allowlist[m][w].exists) =>
                /\ c.op = "approve_wallet"
                /\ done.result = "Ok"
                /\ c.mint = m /\ c.wallet = w
                /\ IsAuthority(c)
                /\ done.allowlist[m][w].is_approved

\* One wallet is approved and another has been revoked.
C17_Witness ==
  \E m \in Mints, v \in Keys, w \in Keys :
    /\ Approved(m, v) /\ lastGate[m][v] = "approve_wallet"
    /\ allowlist[m][w].exists /\ ~allowlist[m][w].is_approved
    /\ lastGate[m][w] = "revoke_wallet"
    /\ last.result = "Ok"

\* C18: gated_transfer does not ask its signer to be TokenConfig.authority.
\* For every signer whose own entry is approved, every approved recipient and
\* every amount > 0, given the signer's and the recipient's token accounts,
\* the approval checks pass and the token program's transfer is called (the
\* instruction succeeds when the token program accepts the transfer).  A
\* mint_tokens with the same signer, recipient and amount is refused with
\* UnauthorizedAuthority when the signer is not the authority, and calls
\* nothing.
C18_TransferNeedsNoAuthority ==
  /\ \A c \in GatedTransferCalls :
       (/\ Approved(c.mint, c.authority) /\ Approved(c.mint, c.wallet)
        /\ c.amount > 0
        /\ c.from_owner = c.authority /\ c.to_owner = c.wallet) =>
         \A out \in {Run(c)} :
           /\ out.result = IF c.ledger_ok THEN "Ok" ELSE "LedgerError"
           /\ LedgerCalls(out) =
                { [fn |-> "transfer", mint |-> c.mint, from |-> c.authority,
                   to |-> c.wallet, amount |-> c.amount] }
  /\ \A c \in MintTokensCalls :
       (/\ Approved(c.mint, c.authority) /\ Approved(c.mint, c.wallet)
        /\ c.amount > 0
        /\ c.to_owner = c.wallet
        /\ ~IsAuthority(c)) =>
         \A out \in {Run(c)} :
           /\ out.result = "UnauthorizedAuthority"
           /\ out.ledger = <<>>

\* A gated_transfer has just succeeded while the authority's own wallet is
\* not approved: its signer is not the authority.
C18_Witness ==
  /\ last = [op |-> "gated_transfer", result |-> "Ok"]
  /\ \E m \in Mints :
       /\ token_config[m].exists
       /\ ~Approved(m, token_config[m].authority)
       /\ \E w \in Keys \ {token_config[m].authority} : Approved(m, w)

\* C19: with amount = 0, mint_tokens by the authority to a wallet that has an
\* entry, and gated_transfer by a signer that has an entry to a recipient
\* that has one (token accounts being theirs), fail with InvalidAmount
\* whether the entries are approved or not: the amount is checked before the
\* approvals.  The token program is not called and total_supply is unchanged.
C19_ZeroAmountFirst ==
  /\ \A c \in MintTokensCalls :
       (/\ c.amount = 0
        /\ IsAuthority(c)
        /\ allowlist[c.mint][c.wallet].exists
        /\ c.to_owner = c.wallet) =>
         \A out \in {Run(c)} :
           /\ out.result = "InvalidAmount"
           /\ out.ledger = <<>>
           /\ out.token_config = token_config
  /\ \A c \in GatedTransferCalls :
       (/\ c.amount = 0
        /\ allowlist[c.mint][c.authority].exists
        /\ allowlist[c.mint][c.wallet].exists
        /\ c.from_owner = c.authority /\ c.to_owner = c.wallet) =>
         \A out \in {Run(c)} :
           /\ out.result = "InvalidAmount"
           /\ out.ledger = <<>>
           /\ out.token_config = token_config

\* A gated_transfer has just failed with InvalidAmount on a token none of
\* whose wallets is approved: its sender and recipient had entries that were
\* not approved.
C19_Witness ==
  /\ last = [op |-> "gated_transfer", result |-> "InvalidAmount"]
  /\ \E m \in Mints :
       /\ token_config[m].exists
       /\ \E w \in Keys : allowlist[m][w].exists
       /\ \A w \in Keys : ~Approved(m, w)

\* C20: in gated_transfer the sender is the signer.  A call whose source
\* token account is not owned by the signer fails and calls nothing.  The
\* sender entry read is the signer's own: without an existing, approved entry
\* of the signer the token program is not called, whatever the other wallets'
\* entries.  Every transfer the instruction makes is out of the signer's
\* account, and the TokensTransferredEvent names the signer as `from`.
C20_SenderIsSigner ==
  \A c \in GatedTransferCalls :
    \A out \in {Run(c)} : \A done \in {Committed(out)} :
      /\ c.from_owner # c.authority =>
           /\ out.result # "Ok"
           /\ out.ledger = <<>>
      /\ ~Approved(c.mint, c.authority) =>
           /\ out.result # "Ok"
           /\ out.ledger = <<>>
      /\ \A call \in LedgerCalls(out) :
           /\ call.from = c.authority
           /\ c.from_owner = c.authority
           /\ Approved(c.mint, c.authority)
      /\ \A k \in 1..Len(done.events) : done.events[k].from = c.authority

\* A gated_transfer given a token account that is not the right wallet's has
\* just been refused, although every wallet is approved.
C20_Witness ==
  /\ last = [op |-> "gated_transfer", result |-> "ConstraintRaw"]
  /\ \A m \in Mints, w \in Keys : Approved(m, w)

\* The amount a transaction in flight has added to total_supply so far.
DoneAmount(s) ==
  IF txs[s].pc = "done" /\ txs[s].result = "Ok" THEN txs[s].call.amount ELSE 0

====
